---- MODULE Spec2Model ----
(***************************************************************************)
(* A model of simpblog's static site generator (src/ssg.py):               *)
(* SimpleSiteGenerator.generate_site, the staleness check                  *)
(* check_for_changes, write_file, the loaders and the renderers.           *)
(*                                                                         *)
(* Strings are sequences of tokens.  A token is one character ("a", ",",   *)
(* " ") or, for the fixed names of the program, one whole literal          *)
(* (".md", ".html", "index.html").  A file name is its stem's characters   *)
(* followed by one extension token.                                        *)
(* A path is a record [root, dir, name]: root "site" for the paths built   *)
(* from the generator's directories, "cwd" for the paths ssg.py builds     *)
(* relative to the working directory.                                      *)
(* A modification time is a natural number read off the variable clock.    *)
(***************************************************************************)
EXTENDS Integers, Sequences, FiniteSets, TLC

VARIABLES
    posts_dir,      \* posts/: file name -> [meta, mtime]
    posts_listing,  \* the order in which os.listdir returns posts/
    pages_dir,      \* pages/: file name -> [meta, mtime]
    pages_listing,  \* the order in which os.listdir returns pages/
    templates,      \* templates/: template name -> mtime
    static_dir,     \* static/: file name -> mtime
    cwd_is_site,    \* the working directory is the site directory
    output,         \* output/: path -> [content, mtime]
    clock,          \* the time of the file system
    run,            \* what the last generate_site did
    probe           \* one call of check_for_changes on its own

vars == <<posts_dir, posts_listing, pages_dir, pages_listing, templates,
          static_dir, cwd_is_site, output, clock, run, probe>>

\* ---------------------------------------------------------------- bounds
\* the greatest time the clock of a site reaches
MaxTime == 2
\* the greatest modification time and the most dependencies of a probe
MaxStamp == 3
MaxDeps == 3

\* --------------------------------------------------------------- strings
Range(s) == {s[i] : i \in 1..Len(s)}

dotMd == <<".md">>
dotHtml == <<".html">>
Extensions == {".md", ".html", ".txt", ".css"}

\* str.endswith for an extension
EndsWith(s, suffix) ==
    /\ Len(s) >= Len(suffix)
    /\ SubSeq(s, Len(s) - Len(suffix) + 1, Len(s)) = suffix

\* os.path.splitext(name)[0]
SplitextStem(name) ==
    IF Len(name) > 1 /\ name[Len(name)] \in Extensions
    THEN SubSeq(name, 1, Len(name) - 1)
    ELSE name

\* the code points of the characters the model uses
Ord(c) ==
    CASE c = " " -> 32
      [] c = "," -> 44
      [] c = "-" -> 45
      [] c \in Extensions -> 46
      [] c = "A" -> 65
      [] c = "B" -> 66
      [] c = "C" -> 67
      [] c = "a" -> 97
      [] c = "b" -> 98
      [] c = "c" -> 99
      [] OTHER -> 200

\* Python's < on str
RECURSIVE StrLess(_, _)
StrLess(s, t) ==
    IF t = <<>> THEN FALSE
    ELSE IF s = <<>> THEN TRUE
    ELSE IF Ord(Head(s)) # Ord(Head(t)) THEN Ord(Head(s)) < Ord(Head(t))
    ELSE StrLess(Tail(s), Tail(t))

\* needle in hay, for two str
Contains(hay, needle) ==
    \E i \in 0..(Len(hay) - Len(needle)) :
        SubSeq(hay, i + 1, i + Len(needle)) = needle

\* str.strip()
RECURSIVE LStrip(_)
LStrip(s) == IF s # <<>> /\ Head(s) = " " THEN LStrip(Tail(s)) ELSE s
RECURSIVE RStrip(_)
RStrip(s) ==
    IF s # <<>> /\ s[Len(s)] = " " THEN RStrip(SubSeq(s, 1, Len(s) - 1)) ELSE s
Strip(s) == RStrip(LStrip(s))

\* str.split(","): the segments between the commas, the empty ones included
RECURSIVE SplitFrom(_, _, _)
SplitFrom(s, i, cur) ==
    IF i > Len(s) THEN <<cur>>
    ELSE IF s[i] = "," THEN <<cur>> \o SplitFrom(s, i + 1, <<>>)
    ELSE SplitFrom(s, i + 1, Append(cur, s[i]))
SplitComma(s) == SplitFrom(s, 1, <<>>)

\* str.replace("-", " ")
ReplaceDash(s) == [i \in 1..Len(s) |-> IF s[i] = "-" THEN " " ELSE s[i]]

Upper(c) ==
    CASE c = "a" -> "A" [] c = "b" -> "B" [] c = "c" -> "C" [] OTHER -> c
IsLetter(c) == c \in {"a", "b", "c", "A", "B", "C"}
\* str.title(): the first letter of every word in upper case
TitleCase(s) ==
    [i \in 1..Len(s) |->
        IF i = 1 \/ ~IsLetter(s[i - 1]) THEN Upper(s[i]) ELSE s[i]]

\* sorted() of a set of str
RECURSIVE SortedStrs(_)
SortedStrs(S) ==
    IF S = {} THEN <<>>
    ELSE LET m == CHOOSE x \in S : \A y \in S : y = x \/ StrLess(x, y)
         IN <<m>> \o SortedStrs(S \ {m})

\* ----------------------------------------------------------------- paths
Path(root, dir, name) == [root |-> root, dir |-> dir, name |-> name]

\* a path relative to the working directory names the site's file only when
\* the generator runs in the site directory
Resolve(p) ==
    IF p.root = "cwd" /\ cwd_is_site THEN [p EXCEPT !.root = "site"] ELSE p

Missing == [exists |-> FALSE, mtime |-> 0]
Present(t) == [exists |-> TRUE, mtime |-> t]

\* os.path.exists and os.path.getmtime of a path, given the output tree
Stat(out, p) ==
    LET q == Resolve(p) IN
    IF q.root = "cwd" THEN Missing
    ELSE CASE q.dir = "posts" ->
                IF q.name \in DOMAIN posts_dir
                THEN Present(posts_dir[q.name].mtime) ELSE Missing
           [] q.dir = "pages" ->
                IF q.name \in DOMAIN pages_dir
                THEN Present(pages_dir[q.name].mtime) ELSE Missing
           [] q.dir = "templates" ->
                IF q.name \in DOMAIN templates
                THEN Present(templates[q.name]) ELSE Missing
           [] q.dir = "static" ->
                IF q.name \in DOMAIN static_dir
                THEN Present(static_dir[q.name]) ELSE Missing
           [] OTHER ->
                IF q \in DOMAIN out THEN Present(out[q].mtime) ELSE Missing

\* ------------------------------------------------------ check_for_changes
\* the loop over source_paths, from its i-th element on
RECURSIVE SourcesLoop(_, _, _, _)
SourcesLoop(source_paths, i, output_path, st) ==
    IF i > Len(source_paths) THEN FALSE
    ELSE IF ~st[source_paths[i]].exists THEN TRUE
    ELSE IF st[source_paths[i]].mtime > st[output_path].mtime THEN TRUE
    ELSE SourcesLoop(source_paths, i + 1, output_path, st)

\* a faulty variant: a source as old as the output triggers the rebuild
RECURSIVE SourcesLoopGeq(_, _, _, _)
SourcesLoopGeq(source_paths, i, output_path, st) ==
    IF i > Len(source_paths) THEN FALSE
    ELSE IF ~st[source_paths[i]].exists THEN TRUE
    ELSE IF st[source_paths[i]].mtime >= st[output_path].mtime THEN TRUE
    ELSE SourcesLoopGeq(source_paths, i + 1, output_path, st)

check_for_changes_geq(full_rebuild, source_paths, output_path, st) ==
    IF full_rebuild THEN TRUE
    ELSE IF ~st[output_path].exists THEN TRUE
    ELSE SourcesLoopGeq(source_paths, 1, output_path, st)

\* st is the file system as the call sees it: path -> [exists, mtime]
check_for_changes(full_rebuild, source_paths, output_path, st) ==
    IF full_rebuild THEN TRUE
    ELSE IF ~st[output_path].exists THEN TRUE
    ELSE SourcesLoop(source_paths, 1, output_path, st)

\* -------------------------------------------------------------- metadata
\* A metadata mapping is a function from a set of keys to values.  The
\* mapping of a .md file is what markdown2 extracts from the file (a black
\* box): the file holds it as its field meta.  A date value is the date as
\* written, <<year, month, day>>; the other values are strings.
layoutName == <<"layout.html">>
indexName == <<"index.html">>
pageName == <<"page.html">>
postName == <<"post.html">>
tagName == <<"tag.html">>
TemplateNames == {layoutName, indexName, pageName, postName, tagName}

None == <<"None">>

\* datetime.fromtimestamp(mtime).strftime("%Y-%m-%d")
DateOfTimestamp(t) == <<2024, 1, t>>

\* datetime.strptime(date, "%Y-%m-%d"), as a number that orders the dates
ParseDate(d) == d[1] * 10000 + d[2] * 100 + d[3]

\* dict.get(key), None when the key is absent
Get(meta, key) == IF key \in DOMAIN meta THEN meta[key] ELSE None

\* self.posts[post_file].metadata as get_posts builds it
PostMetadata(post_file) ==
    IF EndsWith(post_file, dotMd)
    THEN posts_dir[post_file].meta
    ELSE [title |-> TitleCase(ReplaceDash(SplitextStem(post_file))),
          date |-> DateOfTimestamp(posts_dir[post_file].mtime),
          slug |-> SplitextStem(post_file),
          tags |-> <<>>]

\* self.pages[page_file].metadata as get_pages builds it
PageMetadata(page_file) ==
    IF EndsWith(page_file, dotMd)
    THEN pages_dir[page_file].meta
    ELSE [title |-> TitleCase(ReplaceDash(SplitextStem(page_file))),
          slug |-> SplitextStem(page_file)]

\* the files of a listing that get_posts and get_pages keep, in its order
RECURSIVE KeepContent(_)
KeepContent(listing) ==
    IF listing = <<>> THEN <<>>
    ELSE IF EndsWith(Head(listing), dotMd) \/ EndsWith(Head(listing), dotHtml)
         THEN <<Head(listing)>> \o KeepContent(Tail(listing))
         ELSE KeepContent(Tail(listing))

\* the keys of self.posts after get_posts, in insertion order
get_posts == KeepContent(posts_listing)

\* the keys of self.pages after get_pages, in insertion order
get_pages == KeepContent(pages_listing)

\* ------------------------------------------------------------- sort_posts
NoErr == [kind |-> "none", key |-> "", post |-> <<>>]
KeyError(key) == [kind |-> "KeyError", key |-> key, post |-> <<>>]
ValueError(key, post) == [kind |-> "ValueError", key |-> key, post |-> post]

\* get_post_date raises KeyError('date') on the first post without a date
get_post_date_error(posts) ==
    IF \E i \in 1..Len(posts) : "date" \notin DOMAIN PostMetadata(posts[i])
    THEN KeyError("date")
    ELSE NoErr

get_post_date(post) == ParseDate(PostMetadata(post)["date"])

\* a faulty variant: an element goes before the elements of equal date
InsertBeforeEqual(sorted, post) ==
    LET n == Cardinality({i \in 1..Len(sorted) :
                            get_post_date(sorted[i]) > get_post_date(post)})
    IN SubSeq(sorted, 1, n) \o <<post>> \o SubSeq(sorted, n + 1, Len(sorted))

\* sorted(..., reverse=True) is stable: an element goes after every element
\* whose date is greater or equal
InsertDescending(sorted, post) ==
    LET n == Cardinality({i \in 1..Len(sorted) :
                            get_post_date(sorted[i]) >= get_post_date(post)})
    IN SubSeq(sorted, 1, n) \o <<post>> \o SubSeq(sorted, n + 1, Len(sorted))

RECURSIVE SortFrom(_, _, _)
SortFrom(posts, i, sorted) ==
    IF i > Len(posts) THEN sorted
    ELSE SortFrom(posts, i + 1, InsertDescending(sorted, posts[i]))

\* the keys of self.posts after sort_posts
sort_posts(posts) == SortFrom(posts, 1, <<>>)

\* --------------------------------------------------------------- renders
\* A rendered text is the template, the versions of the template and of the
\* layout it extends, and the values handed to the template.
Rendered(tmpl, label, items) ==
    [tmpl |-> tmpl, tv |-> templates[tmpl], lv |-> templates[layoutName],
     label |-> label, items |-> items]

\* the converted body of a content file: the file and its version
Body(dir, file) == <<file, dir[file].mtime>>

render_homepage(posts) ==
    Rendered(indexName, <<>>,
             [i \in 1..Len(posts) |-> PostMetadata(posts[i])])

\* the slug render_page returns
render_page_slug(page_key) ==
    IF "slug" \in DOMAIN PageMetadata(page_key)
    THEN PageMetadata(page_key)["slug"]
    ELSE <<"p", "a", "g", "e">>

render_page(page_key) ==
    Rendered(pageName, <<>>,
             <<[title |-> Get(PageMetadata(page_key), "title"),
                slug |-> Get(PageMetadata(page_key), "slug"),
                content |-> Body(pages_dir, page_key)]>>)

\* what render_post_page raises: ValueError for the first of title, date,
\* slug that is missing, KeyError for missing tags
render_post_error(post_key) ==
    LET m == PostMetadata(post_key) IN
    IF "title" \notin DOMAIN m THEN ValueError("title", post_key)
    ELSE IF "date" \notin DOMAIN m THEN ValueError("date", post_key)
    ELSE IF "slug" \notin DOMAIN m THEN ValueError("slug", post_key)
    ELSE IF "tags" \notin DOMAIN m THEN KeyError("tags")
    ELSE NoErr

render_post_page(post_key) ==
    Rendered(postName, <<>>,
             <<[title |-> PostMetadata(post_key)["title"],
                date |-> PostMetadata(post_key)["date"],
                tags |-> PostMetadata(post_key)["tags"],
                content |-> Body(posts_dir, post_key)]>>)

\* [metadata for post in self.posts.values() if tag in metadata["tags"]]
RECURSIVE posts_with_tag(_, _)
posts_with_tag(posts, tag) ==
    IF posts = <<>> THEN <<>>
    ELSE IF Contains(PostMetadata(Head(posts))["tags"], tag)
         THEN <<PostMetadata(Head(posts))>> \o posts_with_tag(Tail(posts), tag)
         ELSE posts_with_tag(Tail(posts), tag)

render_tag_page(posts, tag) == Rendered(tagName, tag, posts_with_tag(posts, tag))

\* ------------------------------------------------------------- write_file
Put(f, k, v) == [x \in DOMAIN f \cup {k} |-> IF x = k THEN v ELSE f[x]]

\* The state of one generate_site as it goes: the output tree, the outputs
\* whose render was invoked, the calls of write_file and of copy_static's
\* check (each with the file system it saw), the exception raised, and
\* unique_tags.
StartOfRun(out) ==
    [out |-> out, renders |-> <<>>, calls |-> <<>>, err |-> NoErr,
     unique_tags |-> {}]

SeenBy(r, source_paths, file_path) ==
    [p \in Range(source_paths) \cup {file_path} |-> Stat(r.out, p)]

Call(r, kind, file_path, source_paths, written) ==
    [kind |-> kind, path |-> file_path, sources |-> source_paths,
     st |-> SeenBy(r, source_paths, file_path), written |-> written]

\* a faulty variant: the file is written whatever check_for_changes says
write_file_always(r, full_rebuild, file_path, content, source_paths) ==
    [r EXCEPT !.out = Put(@, file_path, [content |-> content, mtime |-> clock]),
              !.calls = Append(@, Call(r, "write", file_path, source_paths, TRUE))]

write_file(r, full_rebuild, file_path, content, source_paths) ==
    IF /\ source_paths # <<>>
       /\ ~check_for_changes(full_rebuild, source_paths, file_path,
                             SeenBy(r, source_paths, file_path))
    THEN [r EXCEPT !.calls =
              Append(@, Call(r, "write", file_path, source_paths, FALSE))]
    ELSE [r EXCEPT
              !.out = Put(@, file_path, [content |-> content, mtime |-> clock]),
              !.calls =
                  Append(@, Call(r, "write", file_path, source_paths, TRUE))]

\* ---------------------------------------------------------- generate_site
layout_path == Path("cwd", "templates", layoutName)
home_template_path == Path("cwd", "templates", indexName)
page_template_path == Path("cwd", "templates", pageName)
post_template_path == Path("site", "templates", postName)
tag_template_path == Path("cwd", "templates", tagName)

home_output_path == Path("site", "output", indexName)
page_file_path(slug) == Path("site", "output", slug \o dotHtml)
post_file_path(slug) == Path("site", "output/posts", slug \o dotHtml)
tag_file_path(tag) == Path("site", "output/tags", tag \o dotHtml)
static_output_path(file) == Path("site", "output/static", file)

Rendering(r, path) == [r EXCEPT !.renders = Append(@, path)]

\* lines 195-199
HomeStep(r, full_rebuild, posts) ==
    write_file(Rendering(r, home_output_path), full_rebuild, home_output_path,
               render_homepage(posts),
               <<home_template_path, layout_path>>)

\* one turn of the loop over self.pages, lines 204-213
PageStep(r, full_rebuild, page_key) ==
    write_file(Rendering(r, page_file_path(render_page_slug(page_key))),
               full_rebuild,
               page_file_path(render_page_slug(page_key)),
               render_page(page_key),
               <<Path("site", "pages", page_key), page_template_path,
                 layout_path>>)

\* tag.strip() for tag in metadata["tags"].split(",")
StrippedSegments(tags) == {Strip(seg) : seg \in Range(SplitComma(tags))}

\* one turn of the loop over self.posts, lines 219-233
PostStep(r, full_rebuild, post_key) ==
    IF render_post_error(post_key) # NoErr
    THEN [r EXCEPT !.err = render_post_error(post_key)]
    ELSE LET slug == PostMetadata(post_key)["slug"]
             w == write_file(Rendering(r, post_file_path(slug)), full_rebuild,
                             post_file_path(slug),
                             render_post_page(post_key),
                             <<Path("site", "posts", post_key),
                               post_template_path, layout_path>>)
         IN [w EXCEPT !.unique_tags =
                 @ \cup StrippedSegments(PostMetadata(post_key)["tags"])]

\* one turn of the loop over sorted_tags, lines 239-248
TagStep(r, full_rebuild, posts, tag) ==
    write_file(Rendering(r, tag_file_path(tag)), full_rebuild,
               tag_file_path(tag),
               render_tag_page(posts, tag),
               <<tag_template_path, layout_path>>
                   \o [i \in 1..Len(posts) |-> Path("site", "posts", posts[i])])

\* one file of copy_static: shutil.copy2 keeps the source's mtime
CopyStep(r, full_rebuild, file) ==
    LET src == Path("site", "static", file)
        dst == static_output_path(file)
    IN IF check_for_changes(full_rebuild, <<src>>, dst, SeenBy(r, <<src>>, dst))
       THEN [r EXCEPT
                !.out = Put(@, dst, [content |-> <<file, static_dir[file]>>,
                                     mtime |-> static_dir[file]]),
                !.calls = Append(@, Call(r, "copy", dst, <<src>>, TRUE))]
       ELSE [r EXCEPT !.calls = Append(@, Call(r, "copy", dst, <<src>>, FALSE))]

\* the loops: an exception ends the run where it is raised
RECURSIVE PagesLoop(_, _, _, _)
PagesLoop(r, full_rebuild, pages, i) ==
    IF i > Len(pages) \/ r.err # NoErr THEN r
    ELSE PagesLoop(PageStep(r, full_rebuild, pages[i]), full_rebuild, pages, i + 1)

\* a faulty variant: the loop goes on after a post has raised
RECURSIVE PostsLoopContinue(_, _, _, _)
PostsLoopContinue(r, full_rebuild, posts, i) ==
    IF i > Len(posts) THEN r
    ELSE PostsLoopContinue(PostStep(r, full_rebuild, posts[i]), full_rebuild,
                           posts, i + 1)

RECURSIVE PostsLoop(_, _, _, _)
PostsLoop(r, full_rebuild, posts, i) ==
    IF i > Len(posts) \/ r.err # NoErr THEN r
    ELSE PostsLoop(PostStep(r, full_rebuild, posts[i]), full_rebuild, posts, i + 1)

RECURSIVE TagsLoop(_, _, _, _, _)
TagsLoop(r, full_rebuild, posts, sorted_tags, i) ==
    IF i > Len(sorted_tags) \/ r.err # NoErr THEN r
    ELSE TagsLoop(TagStep(r, full_rebuild, posts, sorted_tags[i]),
                  full_rebuild, posts, sorted_tags, i + 1)

RECURSIVE StaticLoop(_, _, _, _)
StaticLoop(r, full_rebuild, files, i) ==
    IF i > Len(files) \/ r.err # NoErr THEN r
    ELSE StaticLoop(CopyStep(r, full_rebuild, files[i]), full_rebuild, files, i + 1)

copy_static(r, full_rebuild) ==
    StaticLoop(r, full_rebuild, SortedStrs(DOMAIN static_dir), 1)

\* the whole of generate_site from the output tree out: the state of the
\* run when it returns or raises
generate_site(out, full_rebuild) ==
    IF get_post_date_error(get_posts) # NoErr
    THEN [StartOfRun(out) EXCEPT !.err = get_post_date_error(get_posts)]
    ELSE LET posts == sort_posts(get_posts)
             r1 == HomeStep(StartOfRun(out), full_rebuild, posts)
             r2 == PagesLoop(r1, full_rebuild, get_pages, 1)
             r3 == PostsLoop(r2, full_rebuild, posts, 1)
             r4 == TagsLoop(r3, full_rebuild, posts,
                            SortedStrs(r3.unique_tags), 1)
         IN IF r4.err # NoErr THEN r4 ELSE copy_static(r4, full_rebuild)

\* ------------------------------------------------------------ the inputs
D1 == <<2024, 1, 1>>
D2 == <<2024, 2, 1>>
Dates == {D1, D2}

\* tags values: "", "a", "b", "ab", "a, b"
TagValues == {<<>>, <<"a">>, <<"b">>, <<"a", "b">>, <<"a", ",", " ", "b">>}

RequiredKeys == {"title", "date", "slug", "tags"}

\* the metadata of a .md post, without the key named missing
MdMeta(stem, date, tags, missing) ==
    [k \in RequiredKeys \ {missing} |->
        CASE k = "title" -> TitleCase(stem)
          [] k = "date" -> date
          [] k = "slug" -> stem
          [] k = "tags" -> tags]

CompleteMetas(stem) ==
    {MdMeta(stem, d, t, "none") : d \in Dates, t \in TagValues}

AnyMetas(stem) ==
    {MdMeta(stem, d, t, k) : d \in Dates, t \in TagValues,
                             k \in RequiredKeys \cup {"none"}}

\* the metadata of a .md page, with or without a slug
PageMetas(stem) ==
    {[title |-> TitleCase(stem)], [title |-> TitleCase(stem), slug |-> stem]}

aMd == <<"a", ".md">>
bMd == <<"b", ".md">>
acHtml == <<"a", "-", "c", ".html">>
nTxt == <<"n", ".txt">>
cssFile == <<"s", ".css">>

\* every order of the elements of a set
RECURSIVE Orders(_)
Orders(S) ==
    IF S = {} THEN {<<>>}
    ELSE UNION {{<<x>> \o rest : rest \in Orders(S \ {x})} : x \in S}

File(meta, t) == [meta |-> meta, mtime |-> t]

NoRun ==
    [ran |-> FALSE, full_rebuild |-> FALSE, err |-> NoErr, loaded |-> <<>>,
     posts |-> <<>>, tags |-> <<>>, renders |-> <<>>, calls |-> <<>>,
     before |-> <<>>, dirty |-> FALSE, clean |-> FALSE,
     incremental |-> TRUE]

NoProbe ==
    [called |-> FALSE, result |-> FALSE, full_rebuild |-> FALSE,
     source_paths |-> <<>>, output_path |-> home_output_path, st |-> <<>>]

AllTemplatesAt(t) == [name \in TemplateNames |-> t]

\* -------------------------------------------------------------- actions
\* One run of the program (main, lines 299-339): a new generator, then
\* generate_site.  The files it writes get the time of the clock.
Generate(full_rebuild) ==
    LET r == generate_site(output, full_rebuild) IN
    /\ output' = r.out
    /\ run' = [ran |-> TRUE,
               full_rebuild |-> full_rebuild,
               err |-> r.err,
               loaded |-> get_posts,
               posts |-> IF get_post_date_error(get_posts) # NoErr
                         THEN <<>> ELSE sort_posts(get_posts),
               tags |-> IF r.err # NoErr
                        THEN <<>> ELSE SortedStrs(r.unique_tags),
               renders |-> r.renders,
               calls |-> r.calls,
               before |-> output,
               dirty |-> FALSE,
               clean |-> run.ran /\ ~run.dirty /\ run.err = NoErr,
               incremental |-> run.incremental /\ ~full_rebuild
                                  /\ r.err = NoErr]
    /\ UNCHANGED <<posts_dir, posts_listing, pages_dir, pages_listing,
                   templates, static_dir, cwd_is_site, clock, probe>>

\* a run of the program, at any time
GenerateSite(full_rebuild) == Generate(full_rebuild)

\* the first run of the program on a site
FirstBuild(full_rebuild) ==
    /\ ~run.ran
    /\ Generate(full_rebuild)

\* The author's changes between two runs.  Each gives the file a
\* modification time newer than every time so far.  The run's fields
\* dirty, clean and incremental keep the history the properties speak of:
\* dirty, a change since the last run; clean, the run followed a
\* successful run with no change in between; incremental, so far every
\* run was successful and not forced, and every change was built before
\* the next one.
Changed ==
    run' = [run EXCEPT !.dirty = TRUE,
                       !.incremental = @ /\ run.ran /\ ~run.dirty]

TouchPost(file) ==
    /\ clock < MaxTime
    /\ file \in DOMAIN posts_dir
    /\ clock' = clock + 1
    /\ posts_dir' = [posts_dir EXCEPT ![file].mtime = clock + 1]
    /\ Changed
    /\ UNCHANGED <<posts_listing, pages_dir, pages_listing, templates,
                   static_dir, cwd_is_site, output, probe>>

AddPost(file, meta, listing) ==
    /\ clock < MaxTime
    /\ file \notin DOMAIN posts_dir
    /\ clock' = clock + 1
    /\ posts_dir' = Put(posts_dir, file, File(meta, clock + 1))
    /\ Range(listing) = DOMAIN posts_dir \cup {file}
    /\ posts_listing' = listing
    /\ Changed
    /\ UNCHANGED <<pages_dir, pages_listing, templates, static_dir,
                   cwd_is_site, output, probe>>

TouchPage(file) ==
    /\ clock < MaxTime
    /\ file \in DOMAIN pages_dir
    /\ clock' = clock + 1
    /\ pages_dir' = [pages_dir EXCEPT ![file].mtime = clock + 1]
    /\ Changed
    /\ UNCHANGED <<posts_dir, posts_listing, pages_listing, templates,
                   static_dir, cwd_is_site, output, probe>>

TouchTemplate(name) ==
    /\ clock < MaxTime
    /\ clock' = clock + 1
    /\ templates' = [templates EXCEPT ![name] = clock + 1]
    /\ Changed
    /\ UNCHANGED <<posts_dir, posts_listing, pages_dir, pages_listing,
                   static_dir, cwd_is_site, output, probe>>

TouchStatic(file) ==
    /\ clock < MaxTime
    /\ file \in DOMAIN static_dir
    /\ clock' = clock + 1
    /\ static_dir' = [static_dir EXCEPT ![file] = clock + 1]
    /\ Changed
    /\ UNCHANGED <<posts_dir, posts_listing, pages_dir, pages_listing,
                   templates, cwd_is_site, output, probe>>

\* one call of check_for_changes on the probe's file system
Check ==
    /\ ~probe.called
    /\ probe' = [probe EXCEPT
                    !.called = TRUE,
                    !.result = check_for_changes(probe.full_rebuild,
                                                 probe.source_paths,
                                                 probe.output_path, probe.st)]
    /\ UNCHANGED <<posts_dir, posts_listing, pages_dir, pages_listing,
                   templates, static_dir, cwd_is_site, output, clock, run>>

\* ------------------------------------------------------- specifications
\* Spec: a site that is built, changed and built again.
AddedFiles == {bMd, acHtml}
EditedTemplates == {layoutName, postName}
AddedMetas(file) ==
    IF file = bMd
    THEN {MdMeta(<<"b">>, d, <<"b">>, "none") : d \in Dates}
    ELSE {<<>>}

Init ==
    /\ clock = 1
    /\ posts_dir = (aMd :> File(MdMeta(<<"a">>, D1, <<"a", ",", " ", "b">>, "none"), 1))
    /\ posts_listing = <<aMd>>
    /\ pages_dir = (aMd :> File([title |-> <<"A">>, slug |-> <<"a">>], 1))
    /\ pages_listing = <<aMd>>
    /\ templates = AllTemplatesAt(1)
    /\ static_dir = (cssFile :> 1)
    /\ cwd_is_site \in BOOLEAN
    /\ output = <<>>
    /\ run = NoRun
    /\ probe = NoProbe

Next ==
    \/ \E full_rebuild \in BOOLEAN : GenerateSite(full_rebuild)
    \/ \E file \in DOMAIN posts_dir : TouchPost(file)
    \/ \E file \in AddedFiles : \E meta \in AddedMetas(file) :
          \E listing \in Orders(DOMAIN posts_dir \cup {file}) :
             AddPost(file, meta, listing)
    \/ \E file \in DOMAIN pages_dir : TouchPage(file)
    \/ \E name \in EditedTemplates : TouchTemplate(name)
    \/ \E file \in DOMAIN static_dir : TouchStatic(file)

Spec == Init /\ [][Next]_vars

\* SpecBuild: the first build of a site, over the sites of the bounds.
PostSets == {{aMd, bMd, nTxt}, {aMd, bMd, acHtml}}

PostDirs ==
    {[f \in S |-> IF f = aMd THEN File(ma, 1)
                  ELSE IF f = bMd THEN File(mb, 1)
                  ELSE File(<<>>, 1)] :
        S \in PostSets, ma \in AnyMetas(<<"a">>), mb \in CompleteMetas(<<"b">>)}

PageDirs ==
    {[f \in {aMd, bMd} |-> IF f = aMd THEN File(ma, 1) ELSE File(mb, 1)] :
        ma \in PageMetas(<<"a">>), mb \in PageMetas(<<"b">>)}

DefaultPosts ==
    [f \in {aMd, bMd} |->
        IF f = aMd THEN File(MdMeta(<<"a">>, D1, <<"a">>, "none"), 1)
        ELSE File(MdMeta(<<"b">>, D2, <<"b">>, "none"), 1)]

DefaultPages ==
    [f \in {aMd, bMd} |->
        IF f = aMd THEN File([title |-> <<"A">>, slug |-> <<"a">>], 1)
        ELSE File([title |-> <<"B">>], 1)]

\* either the posts or the pages range over the bounds
InitBuild ==
    /\ clock = 1
    /\ \/ /\ posts_dir \in PostDirs
          /\ pages_dir = DefaultPages
       \/ /\ posts_dir = DefaultPosts
          /\ pages_dir \in PageDirs
    /\ posts_listing \in Orders(DOMAIN posts_dir)
    /\ pages_listing \in Orders(DOMAIN pages_dir)
    /\ templates = AllTemplatesAt(1)
    /\ static_dir = (cssFile :> 1)
    /\ cwd_is_site = TRUE
    /\ output = <<>>
    /\ run = NoRun
    /\ probe = NoProbe

NextBuild == \E full_rebuild \in BOOLEAN : FirstBuild(full_rebuild)

SpecBuild == InitBuild /\ [][NextBuild]_vars

\* SpecOracle: check_for_changes on every file system of the bounds.
ProbeSource(i) == Path("site", "posts", <<"d", ".md">> \o [j \in 1..i |-> "a"])
ProbeStats == {Missing} \cup {Present(t) : t \in 1..MaxStamp}

InitOracle ==
    /\ clock = 1
    /\ posts_dir = <<>>
    /\ posts_listing = <<>>
    /\ pages_dir = <<>>
    /\ pages_listing = <<>>
    /\ templates = AllTemplatesAt(1)
    /\ static_dir = <<>>
    /\ cwd_is_site = TRUE
    /\ output = <<>>
    /\ run = NoRun
    /\ \E n \in 1..MaxDeps : \E full_rebuild \in BOOLEAN :
          \E st \in [{ProbeSource(i) : i \in 1..n} \cup {home_output_path}
                        -> ProbeStats] :
             probe = [called |-> FALSE, result |-> FALSE,
                      full_rebuild |-> full_rebuild,
                      source_paths |-> [i \in 1..n |-> ProbeSource(i)],
                      output_path |-> home_output_path, st |-> st]

NextOracle == Check

SpecOracle == InitOracle /\ [][NextOracle]_vars

\* ------------------------------------------------------------ properties
WriteCalls == {i \in 1..Len(run.calls) : run.calls[i].kind = "write"}
Written == {run.calls[i].path : i \in {j \in 1..Len(run.calls) : run.calls[j].written}}
SortSucceeded == run.ran /\ get_post_date_error(run.loaded) = NoErr
IndexIn(seq, x) == CHOOSE i \in 1..Len(seq) : seq[i] = x
MaxOf(S) == CHOOSE m \in S : \A x \in S : x <= m

\* C1: check_for_changes returns true exactly when full_rebuild is set, or
\* the output does not exist, or a dependency does not exist, or the
\* greatest modification time of the dependencies is strictly greater than
\* the output's.
C1_RebuildExactlyWhenStale ==
    probe.called =>
        (probe.result <=>
            \/ probe.full_rebuild
            \/ ~probe.st[probe.output_path].exists
            \/ \E i \in 1..Len(probe.source_paths) :
                  ~probe.st[probe.source_paths[i]].exists
            \/ MaxOf({probe.st[probe.source_paths[i]].mtime :
                         i \in 1..Len(probe.source_paths)})
                  > probe.st[probe.output_path].mtime)

\* C1, witness: a call that returns false although the last of several
\* dependencies is exactly as old as the output
C1_EqualTimeNoRebuild ==
    /\ probe.called
    /\ ~probe.result
    /\ Len(probe.source_paths) > 1
    /\ probe.st[probe.source_paths[Len(probe.source_paths)]].mtime
          = probe.st[probe.output_path].mtime

\* an output that is up to date at the call of write_file: no full rebuild,
\* the output exists, every dependency exists and none is newer
UpToDate(call) ==
    /\ ~run.full_rebuild
    /\ call.st[call.path].exists
    /\ \A s \in Range(call.sources) :
          call.st[s].exists /\ call.st[s].mtime <= call.st[call.path].mtime

C3_SecondRunWritesNothing ==
    (run.ran /\ run.clean /\ ~run.full_rebuild /\ run.err = NoErr) =>
        /\ \A i \in 1..Len(run.calls) : ~run.calls[i].written
        /\ output = run.before

\* the posts one of whose labels is the tag, an exact match
RECURSIVE posts_with_label(_, _)
posts_with_label(posts, tag) ==
    IF posts = <<>> THEN <<>>
    ELSE IF \E seg \in Range(SplitComma(PostMetadata(Head(posts))["tags"])) :
                Strip(seg) = tag
         THEN <<PostMetadata(Head(posts))>> \o posts_with_label(Tail(posts), tag)
         ELSE posts_with_label(Tail(posts), tag)

\* C4: the page of a label lists exactly the posts one of whose labels is
\* the label, in the sorted order.
C4_LabelPageListsExactMatches ==
    (run.ran /\ run.err = NoErr) =>
        \A i \in 1..Len(run.tags) :
            run.tags[i] # <<>> =>
                output[tag_file_path(run.tags[i])].content.items
                    = posts_with_label(run.posts, run.tags[i])

\* the labels of the posts of a listing: the trimmed segments, the empty
\* ones dropped
LabelsOf(posts) ==
    UNION {StrippedSegments(PostMetadata(posts[i])["tags"]) \ {<<>>} :
              i \in 1..Len(posts)}

\* C5: the label pages are those of the distinct, trimmed, non-empty
\* segments of the posts' tags, in lexicographic order.
C5_LabelsAreTheNonEmptySegments ==
    (run.ran /\ run.err = NoErr) =>
        /\ Range(run.tags) = LabelsOf(run.posts)
        /\ {p \in DOMAIN output : p.dir = "output/tags"}
              = {tag_file_path(t) : t \in LabelsOf(run.posts)}
        /\ \A i \in 1..Len(run.tags) : \A j \in 1..Len(run.tags) :
              i < j => StrLess(run.tags[i], run.tags[j])

SortedByDate ==
    /\ Len(run.posts) = Len(run.loaded)
    /\ Range(run.posts) = Range(run.loaded)
    /\ \A i \in 1..Len(run.posts) : \A j \in 1..Len(run.posts) :
          i < j => get_post_date(run.posts[i]) >= get_post_date(run.posts[j])

\* C6 as the specification states it: the posts are in non-increasing date order, and posts of
\* equal date are in the lexicographic order of their file names.
C6_TiesInFileNameOrder ==
    SortSucceeded =>
        /\ SortedByDate
        /\ \A i \in 1..Len(run.posts) : \A j \in 1..Len(run.posts) :
              (i < j /\ get_post_date(run.posts[i]) = get_post_date(run.posts[j]))
                  => StrLess(run.posts[i], run.posts[j])

\* C6 as amended: the posts are in non-increasing date order, and posts of
\* equal date are in the order in which the directory listing returned
\* them.
C6_TiesInListingOrder ==
    SortSucceeded =>
        /\ SortedByDate
        /\ \A i \in 1..Len(run.posts) : \A j \in 1..Len(run.posts) :
              (i < j /\ get_post_date(run.posts[i]) = get_post_date(run.posts[j]))
                  => IndexIn(run.loaded, run.posts[i])
                        < IndexIn(run.loaded, run.posts[j])

\* C6, witness: two posts of equal date that the listing returned against
\* the order of their names
C6_TieAgainstFileNameOrder ==
    /\ SortSucceeded
    /\ \E i \in 1..Len(run.posts) : \E j \in 1..Len(run.posts) :
          /\ i < j
          /\ get_post_date(run.posts[i]) = get_post_date(run.posts[j])
          /\ StrLess(run.posts[j], run.posts[i])

Lacks(post, key) == key \notin DOMAIN PostMetadata(post)

\* C7: when a post lacks title, date or tags, the run fails with the
\* missing-metadata error (the ValueError of render_post_page) that names a
\* key a post lacks and that post.
C7_MissingKeyIsNamed ==
    (run.ran /\ \E p \in Range(run.loaded) :
                   \E k \in {"title", "date", "tags"} : Lacks(p, k)) =>
        /\ run.err.kind = "ValueError"
        /\ run.err.post \in Range(run.loaded)
        /\ run.err.key \in {"title", "date", "tags"}
        /\ Lacks(run.err.post, run.err.key)

\* C8 as the specification states it: a run that fails has written nothing.
C8_FailedRunWritesNothing ==
    (run.ran /\ run.err # NoErr) => output = run.before

\* the number of posts rendered before the one that raises
RenderedBefore ==
    Cardinality({i \in 1..Len(run.posts) :
                    \A j \in 1..i : render_post_error(run.posts[j]) = NoErr})

\* C8 as amended: a run that fails stops where the exception is raised.
\* When sort_posts raises, nothing was written.  When the render of a post
\* raises, the homepage, the pages and the posts before it in the sorted
\* order have gone through write_file, no later post, no label page and no
\* static file has, and the output tree differs from the tree before the
\* run at the written paths only.
C8_FailedRunStopsAtTheFailure ==
    (run.ran /\ run.err # NoErr) =>
        /\ \A p \in (DOMAIN output \cup DOMAIN run.before) \ Written :
              p \in DOMAIN output /\ p \in DOMAIN run.before
                                  /\ output[p] = run.before[p]
        /\ IF ~SortSucceeded
           THEN run.calls = <<>>
           ELSE /\ Len(run.calls) = 1 + Len(get_pages) + RenderedBefore
                /\ \A i \in 1..Len(run.calls) :
                      /\ run.calls[i].kind = "write"
                      /\ run.calls[i].path.dir \in {"output", "output/posts"}
                /\ \A i \in 1..RenderedBefore :
                      run.calls[1 + Len(get_pages) + i].path
                          = post_file_path(PostMetadata(run.posts[i])["slug"])

\* C8, witness: a run that fails after it has written a post
C8_FailedAfterWritingAPost ==
    /\ run.ran
    /\ run.err # NoErr
    /\ \E i \in 1..Len(run.calls) :
          run.calls[i].written /\ run.calls[i].path.dir = "output/posts"
    /\ output # run.before

\* C9: a page is written to the path of its slug and, without a slug, to the
\* path of its file name without the extension.
C9_PagePathFromSlugOrStem ==
    run.ran =>
        \A i \in 1..Len(get_pages) :
            LET page == get_pages[i]
                stem == IF "slug" \in DOMAIN PageMetadata(page)
                        THEN PageMetadata(page)["slug"]
                        ELSE SplitextStem(page)
            IN /\ page_file_path(stem) \in DOMAIN output
               /\ output[page_file_path(stem)].content = render_page(page)

\* the outputs a forced full rebuild of the present sources writes from
\* templates: the homepage, the pages, the posts and the label pages
FullRebuild == generate_site(output, TRUE).out
Templated == {p \in DOMAIN FullRebuild : p.dir # "output/static"}

\* C10: after changes each followed by a successful run that is not forced,
\* every output a forced full rebuild would write holds the content the full
\* rebuild would give it.
C10_IncrementalEqualsFullRebuild ==
    (run.ran /\ run.incremental /\ ~run.dirty) =>
        \A p \in Templated :
            /\ p \in DOMAIN output
            /\ output[p].content = FullRebuild[p].content

====
